---- MODULE Spec2Model ----
(***************************************************************************)
(* The SV39 virtual-memory subsystem of the kernel: page table             *)
(* (os/src/mm/page_table.rs), map areas and memory sets                    *)
(* (os/src/mm/memory_set.rs), the program break of a task                  *)
(* (os/src/task/task.rs) and the memory syscalls                           *)
(* (os/src/syscall/process.rs).                                            *)
(*                                                                         *)
(* Scaling.  The three-level walk, the PTE bit layout and the flag bits    *)
(* are those of the source.  Memory is an array of cells: a cell stands    *)
(* for one byte of data and for one entry of a page-table node (8 bytes in *)
(* the source).  A page holds PAGE_SIZE cells instead of 4096 bytes and a  *)
(* page-table node IdxEntries entries instead of 512, so a virtual address *)
(* space has IdxEntries^3 pages.  Physical page 0 is never a frame, the    *)
(* kernel image lies in the pages from TrampolinePPN on, and the frame     *)
(* allocator hands out the pages FirstFrame .. FrameEnd-1.                 *)
(*                                                                         *)
(* A fatal condition (a failed assert!, an unwrap() of None) sets          *)
(* panicked: the kernel aborts, nothing runs after it and nothing observes *)
(* the memory any more, so a panicked machine is recorded as Halted.       *)
(***************************************************************************)
EXTENDS Integers, Sequences, FiniteSets, TLC

\* ------------------------------------------------------------------ bounds
NumFrames == 14       \* frames the allocator owns
MaxAreas == 2         \* areas an insert may add to those a memory set was built with
MaxLen == 2           \* longest page range an operation is called with
MaxMmaps == 1         \* areas a task may add to those it was built with
OtherFrames == 1      \* frames held by others before the memory set is built
MaxCalls == 6         \* longest sequence of calls, the construction included

\* --------------------------------------------------------------- constants
IdxEntries == 3                          \* entries of one page-table node (scaled)
PAGE_SIZE == 3                           \* cells of one page (scaled)
NumVPN == IdxEntries * IdxEntries * IdxEntries
TRAMPOLINE == (NumVPN - 1) * PAGE_SIZE   \* the top page of the address space
TRAP_CONTEXT_BASE == TRAMPOLINE - PAGE_SIZE
USER_STACK_SIZE == PAGE_SIZE             \* (scaled)

(* The kernel image, as the linker script lays it out: every section starts
   on a page boundary, the trampoline code is the first page of .text, and
   the frames of the allocator follow the image up to MEMORY_END. *)
TrampolinePPN == 1                       \* physical page of the strampoline symbol
strampoline == TrampolinePPN * PAGE_SIZE
stext == strampoline
etext == stext + PAGE_SIZE - 1
srodata == stext + PAGE_SIZE
erodata == srodata + PAGE_SIZE - 1
sdata == srodata + PAGE_SIZE
edata == sdata + 1
sbss_with_stack == sdata + PAGE_SIZE
ebss == sbss_with_stack + PAGE_SIZE
ekernel == ebss
FirstFrame == ekernel \div PAGE_SIZE
FrameEnd == FirstFrame + NumFrames
MEMORY_END == FrameEnd * PAGE_SIZE

\* PTEFlags, page_table.rs:13-25
V == 1
R == 2
W == 4
X == 8
U == 16

VPNs == 0 .. NumVPN - 1
PPNs == 0 .. FrameEnd - 1
ZeroPage == [i \in 0 .. IdxEntries - 1 |-> 0]
None == [some |-> FALSE, ppn |-> 0, idx |-> 0]

\* ------------------------------------------------------- address arithmetic
Floor(va) == va \div PAGE_SIZE
Ceil(va) == IF va = 0 THEN 0 ELSE (va - 1 + PAGE_SIZE) \div PAGE_SIZE
PageOffset(va) == va % PAGE_SIZE
\* vpn.indexes(): the level-2, level-1 and level-0 index of a page number
Indexes(vpn) ==
    << (vpn \div (IdxEntries * IdxEntries)) % IdxEntries,
       (vpn \div IdxEntries) % IdxEntries,
       vpn % IdxEntries >>

\* ------------------------------------------------------------ bit patterns
HasBit(bits, f) == (bits \div f) % 2 = 1
RECURSIVE BitOrFrom(_, _, _)
BitOrFrom(a, b, w) ==
    IF w > 128 THEN 0
    ELSE (IF HasBit(a, w) \/ HasBit(b, w) THEN w ELSE 0) + BitOrFrom(a, b, 2 * w)
BitOr(a, b) == BitOrFrom(a, b, 1)

\* ------------------------------------------------------ PageTableEntry
\* an entry that keeps only the flag bits below U
PteNewLowFlags(ppn, flags) == ppn * 1024 + (flags % 16)
\* bits: ppn.0 << 10 | flags.bits
PteNew(ppn, flags) == ppn * 1024 + flags
PteEmpty == 0
\* bits >> 10 & ((1 << 44) - 1): every ppn of the model is below 2^44
PtePpn(bits) == bits \div 1024
\* PTEFlags::from_bits(self.bits as u8)
PteFlags(bits) == bits % 256
PteIsValid(bits) == HasBit(PteFlags(bits), V)
PteWritable(bits) == HasBit(PteFlags(bits), W)

\* ------------------------------------------------------- frame allocator
(* A machine state m is the record
     [mem, root, frames, areas, current, recycled, panicked]:
   physical memory as page-table nodes, the page table (root_ppn, frames),
   the area list of the memory set, and the stack frame allocator
   (next unused page, recycled pages). *)
Panic(m) == [m EXCEPT !.panicked = TRUE]

\* frame_alloc(): a recycled page first, else the next unused one, else None.
\* FrameTracker::new zeroes the page.
FrameAlloc(m) ==
    IF Len(m.recycled) > 0
    THEN LET p == m.recycled[Len(m.recycled)]
         IN [ok |-> TRUE, ppn |-> p,
             m |-> [m EXCEPT !.recycled = SubSeq(@, 1, Len(@) - 1),
                             !.mem[p] = ZeroPage]]
    ELSE IF m.current = FrameEnd
    THEN [ok |-> FALSE, ppn |-> 0, m |-> m]
    ELSE [ok |-> TRUE, ppn |-> m.current,
          m |-> [m EXCEPT !.current = @ + 1, !.mem[m.current] = ZeroPage]]

\* drop of a FrameTracker: frame_dealloc(ppn); a page that was never handed
\* out or is already recycled is fatal.
FrameDealloc(m, ppn) ==
    IF m.panicked THEN m
    ELSE IF ppn >= m.current \/ (\E i \in 1 .. Len(m.recycled) : m.recycled[i] = ppn)
    THEN Panic(m)
    ELSE [m EXCEPT !.recycled = Append(@, ppn)]

FramesInUseOf(m) == (m.current - FirstFrame) - Len(m.recycled)

\* ------------------------------------------------------------ PageTable
\* PageTable::new(): one frame, the root
\* r: the result of frame_alloc()
PageTableNewIn(m, r) ==
    IF ~r.ok THEN Panic(m)
    ELSE [r.m EXCEPT !.root = r.ppn, !.frames = << r.ppn >>]
PageTableNew(m) == PageTableNewIn(m, FrameAlloc(m))

\* a node that is written into its entry and not pushed to the frame list
CreateNodeUnlisted(m, ppn, idx, r) ==
    IF ~r.ok THEN [m |-> Panic(m), next |-> 0]
    ELSE [m |-> [r.m EXCEPT !.mem[ppn][idx] = PteNew(r.ppn, V)],
          next |-> r.ppn]
\* one non-leaf level of find_pte_create: the entry idx of node ppn
\* r: the result of frame_alloc().unwrap() for the missing node
CreateNode(m, ppn, idx, r) ==
    IF ~r.ok THEN [m |-> Panic(m), next |-> 0]
    ELSE [m |-> [r.m EXCEPT !.mem[ppn][idx] = PteNew(r.ppn, V),
                            !.frames = Append(@, r.ppn)],
          next |-> r.ppn]
CreateStep(m, ppn, idx) ==
    IF PteIsValid(m.mem[ppn][idx])
    THEN [m |-> m, next |-> PtePpn(m.mem[ppn][idx])]
    ELSE CreateNode(m, ppn, idx, FrameAlloc(m))

\* find_pte_create: the place (node, index) of the leaf entry of vpn
\* s1: the walk after the level-1 step
FindPteCreateLeaf(s1, idxs) == [m |-> s1.m, ppn |-> s1.next, idx |-> idxs[3]]
\* s2: the walk after the level-2 step
FindPteCreateFrom(s2, idxs) ==
    IF s2.m.panicked THEN [m |-> s2.m, ppn |-> 0, idx |-> 0]
    ELSE FindPteCreateLeaf(CreateStep(s2.m, s2.next, idxs[2]), idxs)
FindPteCreate(m, vpn) ==
    FindPteCreateFrom(CreateStep(m, m.root, Indexes(vpn)[1]), Indexes(vpn))

\* find_pte: the place of the leaf entry of vpn, None at the first invalid
\* non-leaf entry
FindPte(mm, root, vpn) ==
    LET idxs == Indexes(vpn)
        p2 == mm[root][idxs[1]]
    IN IF ~PteIsValid(p2) THEN None
       ELSE LET p1 == mm[PtePpn(p2)][idxs[2]]
            IN IF ~PteIsValid(p1) THEN None
               ELSE [some |-> TRUE, ppn |-> PtePpn(p1), idx |-> idxs[3]]

\* PageTable::map
\* r: the place find_pte_create returned
PageTableMapAt(r, ppn, flags) ==
    IF r.m.panicked THEN r.m
    ELSE IF PteIsValid(r.m.mem[r.ppn][r.idx]) THEN Panic(r.m)
    ELSE [r.m EXCEPT !.mem[r.ppn][r.idx] = PteNew(ppn, BitOr(flags, V))]
PageTableMap(m, vpn, ppn, flags) == PageTableMapAt(FindPteCreate(m, vpn), ppn, flags)

\* an unmap that clears the whole node of the leaf entry
PageTableUnmapAtNode(m, l) ==
    IF ~l.some THEN Panic(m)
    ELSE IF ~PteIsValid(m.mem[l.ppn][l.idx]) THEN Panic(m)
    ELSE [m EXCEPT !.mem[l.ppn] = ZeroPage]
\* PageTable::unmap
\* l: the place find_pte returned
PageTableUnmapAt(m, l) ==
    IF ~l.some THEN Panic(m)
    ELSE IF ~PteIsValid(m.mem[l.ppn][l.idx]) THEN Panic(m)
    ELSE [m EXCEPT !.mem[l.ppn][l.idx] = PteEmpty]
PageTableUnmap(m, vpn) == PageTableUnmapAt(m, FindPte(m.mem, m.root, vpn))

\* PageTable::translate: find_pte(vpn).map(|pte| *pte)
\* l: the place find_pte returned
TranslateAt(mm, l) ==
    IF l.some THEN [some |-> TRUE, pte |-> mm[l.ppn][l.idx]]
    ELSE [some |-> FALSE, pte |-> 0]
Translate(mm, root, vpn) == TranslateAt(mm, FindPte(mm, root, vpn))

\* -------------------------------------------------------------- MapArea
(* An area is the record [start, end, map_type, map_perm, data_frames]:
   vpn_range = [start, end) and data_frames a map from page number to the
   page of the FrameTracker held for it. *)
EmptyMap == [v \in {} |-> 0]

\* VPNRange::new(start, end) requires start <= end; a violation is fatal
RangeOk(s, e) == s <= e

\* MapArea::new: vpn_range = [start_va.floor(), end_va.ceil())
MapAreaNew(start_va, end_va, map_type, map_perm) ==
    [start |-> Floor(start_va), end |-> Ceil(end_va), map_type |-> map_type,
     map_perm |-> map_perm, data_frames |-> EmptyMap]

\* impl PartialEq for MapArea: start, end and map type
AreaEq(a, b) == a.start = b.start /\ a.end = b.end /\ a.map_type = b.map_type

(* The map-area operations work on c = [m, a]: the machine and the area
   being changed (a local of push/pop, or an element of the area list). *)

\* a map_one that lets the FrameTracker go out of scope before the page is
\* mapped instead of keeping it in data_frames
MapOneFramedDropped(c, vpn, r) ==
    IF ~r.ok THEN [c EXCEPT !.m = Panic(c.m)]
    ELSE [c EXCEPT !.m = PageTableMap(FrameDealloc(r.m, r.ppn), vpn, r.ppn,
                                      c.a.map_perm)]

\* MapArea::map_one
\* MapType::Framed: r is the result of frame_alloc().unwrap();
\* BTreeMap::insert drops the tracker it replaces
MapOneFramed(c, vpn, r) ==
    IF ~r.ok THEN [c EXCEPT !.m = Panic(c.m)]
    ELSE [m |-> PageTableMap(IF vpn \in DOMAIN c.a.data_frames
                             THEN FrameDealloc(r.m, c.a.data_frames[vpn])
                             ELSE r.m,
                             vpn, r.ppn, c.a.map_perm),
          a |-> [c.a EXCEPT !.data_frames =
                     [v \in DOMAIN c.a.data_frames \cup {vpn} |->
                         IF v = vpn THEN r.ppn ELSE c.a.data_frames[v]]]]
MapOne(c, vpn) ==
    IF c.m.panicked THEN c
    ELSE IF c.a.map_type = "Identical"
    THEN [c EXCEPT !.m = PageTableMap(c.m, vpn, vpn, c.a.map_perm)]
    ELSE MapOneFramed(c, vpn, FrameAlloc(c.m))

\* an unmap_one that drops the frame and leaves the leaf entry
UnmapOneKeepsEntry(c, vpn) ==
    IF c.m.panicked THEN c
    ELSE [m |-> IF c.a.map_type = "Framed" /\ vpn \in DOMAIN c.a.data_frames
                THEN FrameDealloc(c.m, c.a.data_frames[vpn])
                ELSE c.m,
          a |-> IF c.a.map_type = "Framed"
                THEN [c.a EXCEPT !.data_frames =
                         [v \in DOMAIN c.a.data_frames \ {vpn} |->
                             c.a.data_frames[v]]]
                ELSE c.a]
\* MapArea::unmap_one
UnmapOne(c, vpn) ==
    IF c.m.panicked THEN c
    ELSE [m |-> PageTableUnmap(
                    IF c.a.map_type = "Framed" /\ vpn \in DOMAIN c.a.data_frames
                    THEN FrameDealloc(c.m, c.a.data_frames[vpn])
                    ELSE c.m,
                    vpn),
          a |-> IF c.a.map_type = "Framed"
                THEN [c.a EXCEPT !.data_frames =
                         [v \in DOMAIN c.a.data_frames \ {vpn} |->
                             c.a.data_frames[v]]]
                ELSE c.a]

\* for vpn in [v, e) { map_one }
RECURSIVE MapRange(_, _, _)
MapRange(c, v, e) == IF v >= e THEN c ELSE MapRange(MapOne(c, v), v + 1, e)

\* for vpn in [v, e) { unmap_one }
RECURSIVE UnmapRange(_, _, _)
UnmapRange(c, v, e) == IF v >= e THEN c ELSE UnmapRange(UnmapOne(c, v), v + 1, e)

\* MapArea::map / MapArea::unmap
AreaMap(c) == MapRange(c, c.a.start, c.a.end)
AreaUnmap(c) == UnmapRange(c, c.a.start, c.a.end)

\* MapArea::shrink_to
\* self.vpn_range = VPNRange::new(self.vpn_range.get_start(), new_end)
SetEnd(c1, new_end) ==
    IF c1.m.panicked THEN c1
    ELSE IF ~RangeOk(c1.a.start, new_end) THEN [c1 EXCEPT !.m = Panic(c1.m)]
    ELSE [c1 EXCEPT !.a.end = new_end]
\* a shrink_to that sets the range and leaves the pages mapped
AreaShrinkToRangeOnly(c, new_end) ==
    IF ~RangeOk(new_end, c.a.end) THEN [c EXCEPT !.m = Panic(c.m)]
    ELSE SetEnd(c, new_end)
AreaShrinkTo(c, new_end) ==
    IF ~RangeOk(new_end, c.a.end) THEN [c EXCEPT !.m = Panic(c.m)]
    ELSE SetEnd(UnmapRange(c, new_end, c.a.end), new_end)

\* an append_to that maps the pages and keeps the old range
AreaAppendToOldRange(c, new_end) ==
    IF ~RangeOk(c.a.end, new_end) THEN [c EXCEPT !.m = Panic(c.m)]
    ELSE MapRange(c, c.a.end, new_end)
\* MapArea::append_to
AreaAppendTo(c, new_end) ==
    IF ~RangeOk(c.a.end, new_end) THEN [c EXCEPT !.m = Panic(c.m)]
    ELSE SetEnd(MapRange(c, c.a.end, new_end), new_end)

\* drop of a MapArea: the trackers of data_frames, in key order
RECURSIVE DropFrames(_, _, _)
\* the first key of df from v on
NextKey(df, v) ==
    CHOOSE k \in DOMAIN df : k >= v /\ \A j \in DOMAIN df : j >= v => k <= j
DropFramesAt(m, df, k) == DropFrames(FrameDealloc(m, df[k]), df, k + 1)
DropFrames(m, df, v) ==
    IF \A k \in DOMAIN df : k < v THEN m
    ELSE DropFramesAt(m, df, NextKey(df, v))
DropArea(m, a) == DropFrames(m, a.data_frames, 0)

\* ------------------------------------------------------------ MemorySet
\* MemorySet::new_bare
NewBare(m) == [PageTableNew(m) EXCEPT !.areas = << >>]

\* MemorySet::map_trampoline
MapTrampoline(m) ==
    IF m.panicked THEN m
    ELSE PageTableMap(m, Floor(TRAMPOLINE), TrampolinePPN, BitOr(R, X))

\* MemorySet::push with None for the data
\* self.areas.push(map_area), c the area after map_area.map
PushMapped(c) ==
    IF c.m.panicked THEN c.m ELSE [c.m EXCEPT !.areas = Append(@, c.a)]
Push(m, map_area) ==
    IF m.panicked THEN m
    ELSE IF ~RangeOk(map_area.start, map_area.end) THEN Panic(m)
    ELSE PushMapped(AreaMap([m |-> m, a |-> map_area]))

\* MapArea::copy_data
\* one turn of the loop: src = data[start .. min(len, start + PAGE_SIZE)) goes
\* to the first cells of the frame t = translate(current_vpn) names
CopyPage(m, t, data, start) ==
    IF ~t.some THEN Panic(m)
    ELSE [m EXCEPT !.mem[PtePpn(t.pte)] =
             [k \in 0 .. PAGE_SIZE - 1 |->
                 IF start + k < Len(data) THEN data[start + k + 1] ELSE @[k]]]
\* start += PAGE_SIZE; if start >= len { break }; current_vpn.step()
RECURSIVE CopyFrom(_, _, _, _)
CopyNext(m1, vpn, data, start) ==
    IF m1.panicked \/ start + PAGE_SIZE >= Len(data) THEN m1
    ELSE CopyFrom(m1, vpn + 1, data, start + PAGE_SIZE)
CopyFrom(m, vpn, data, start) ==
    CopyNext(CopyPage(m, Translate(m.mem, m.root, vpn), data, start), vpn, data, start)
\* c: the area after map_area.map
CopyData(c, data) ==
    IF c.m.panicked THEN c
    ELSE IF c.a.map_type # "Framed" THEN [c EXCEPT !.m = Panic(c.m)]
    ELSE [c EXCEPT !.m = CopyFrom(c.m, c.a.start, data, 0)]

\* MemorySet::push with Some(data)
PushData(m, map_area, data) ==
    IF m.panicked THEN m
    ELSE IF ~RangeOk(map_area.start, map_area.end) THEN Panic(m)
    ELSE PushMapped(CopyData(AreaMap([m |-> m, a |-> map_area]), data))

\* areas.iter().position(|area| area == &map_area): 0 when there is none
Position(areas_, map_area) ==
    IF \E i \in 1 .. Len(areas_) : AreaEq(areas_[i], map_area)
    THEN CHOOSE i \in 1 .. Len(areas_) :
             /\ AreaEq(areas_[i], map_area)
             /\ \A j \in 1 .. i - 1 : ~AreaEq(areas_[j], map_area)
    ELSE 0

RemoveAt(s, i) == SubSeq(s, 1, i - 1) \o SubSeq(s, i + 1, Len(s))

\* a pop that unmaps the range and leaves the area in the list
PopKeepsArea(m, map_area) ==
    IF ~RangeOk(map_area.start, map_area.end) THEN Panic(m)
    ELSE AreaUnmap([m |-> m, a |-> map_area]).m

\* MemorySet::pop: the template is unmapped first, then the first equal area
\* is looked up and removed
\* if let Some(index) = position { self.areas.remove(index) }
PopAt(m, i) ==
    IF i = 0 THEN m ELSE DropArea([m EXCEPT !.areas = RemoveAt(@, i)], m.areas[i])
\* c: the template after map_area.unmap
PopUnmapped(c) ==
    IF c.m.panicked THEN c.m ELSE PopAt(c.m, Position(c.m.areas, c.a))
Pop(m, map_area) ==
    IF ~RangeOk(map_area.start, map_area.end) THEN Panic(m)
    ELSE PopUnmapped(AreaUnmap([m |-> m, a |-> map_area]))

\* a new_kernel that maps .rodata writable
NewKernelRodataWritable(m) ==
    Push(Push(Push(Push(Push(MapTrampoline(NewBare(m)),
        MapAreaNew(stext, etext, "Identical", BitOr(R, X))),
        MapAreaNew(srodata, erodata, "Identical", BitOr(R, W))),
        MapAreaNew(sdata, edata, "Identical", BitOr(R, W))),
        MapAreaNew(sbss_with_stack, ebss, "Identical", BitOr(R, W))),
        MapAreaNew(ekernel, MEMORY_END, "Identical", BitOr(R, W)))

\* MemorySet::new_kernel: the trampoline, then the Identical areas of .text,
\* .rodata, .data, .bss and the physical memory after the kernel
NewKernel(m) ==
    Push(Push(Push(Push(Push(MapTrampoline(NewBare(m)),
        MapAreaNew(stext, etext, "Identical", BitOr(R, X))),
        MapAreaNew(srodata, erodata, "Identical", R)),
        MapAreaNew(sdata, edata, "Identical", BitOr(R, W))),
        MapAreaNew(sbss_with_stack, ebss, "Identical", BitOr(R, W))),
        MapAreaNew(ekernel, MEMORY_END, "Identical", BitOr(R, W)))

\* MemorySet::insert_framed_area
InsertFramedArea(m, start_va, end_va, permission) ==
    Push(m, MapAreaNew(start_va, end_va, "Framed", permission))

\* MemorySet::delete_framed_area
DeleteFramedArea(m, start_va, end_va) ==
    Pop(m, MapAreaNew(start_va, end_va, "Framed", 0))

\* areas.iter_mut().find(|area| area.vpn_range.get_start() == start.floor())
FindByStart(areas_, vpn) ==
    IF \E i \in 1 .. Len(areas_) : areas_[i].start = vpn
    THEN CHOOSE i \in 1 .. Len(areas_) :
             /\ areas_[i].start = vpn
             /\ \A j \in 1 .. i - 1 : areas_[j].start # vpn
    ELSE 0

\* MemorySet::shrink_to: [m, result]
\* the area found is changed in place: c is the area i after the change
Resized(i, c) == [m |-> [c.m EXCEPT !.areas[i] = c.a], result |-> TRUE]
\* i: the index of the area found, 0 when there is none
ShrinkAt(m, i, new_end) ==
    IF i = 0 THEN [m |-> m, result |-> FALSE]
    ELSE Resized(i, AreaShrinkTo([m |-> m, a |-> m.areas[i]], new_end))
ShrinkTo(m, start, new_end) ==
    ShrinkAt(m, FindByStart(m.areas, Floor(start)), Ceil(new_end))

\* MemorySet::append_to: [m, result]
AppendAt(m, i, new_end) ==
    IF i = 0 THEN [m |-> m, result |-> FALSE]
    ELSE Resized(i, AreaAppendTo([m |-> m, a |-> m.areas[i]], new_end))
AppendTo(m, start, new_end) ==
    AppendAt(m, FindByStart(m.areas, Floor(start)), Ceil(new_end))

\* MemorySet::translate
MemorySetTranslate(m, vpn) == Translate(m.mem, m.root, vpn)

\* drop of a MemorySet: the fields in declaration order, page_table (its
\* frames in order) and then areas (each area's data_frames in key order)
RECURSIVE DropSeq(_, _, _)
DropSeq(m, fs, i) ==
    IF i > Len(fs) THEN m ELSE DropSeq(FrameDealloc(m, fs[i]), fs, i + 1)
RECURSIVE DropAreas(_, _, _)
DropAreas(m, as, i) ==
    IF i > Len(as) THEN m ELSE DropAreas(DropArea(m, as[i]), as, i + 1)
\* a drop that returns the page table's frames only
DropPageTableOnly(m) ==
    [DropSeq(m, m.frames, 1) EXCEPT !.frames = << >>, !.areas = << >>]

DropMemorySet(m) ==
    [DropAreas(DropSeq(m, m.frames, 1), m.areas, 1)
        EXCEPT !.frames = << >>, !.areas = << >>]

\* ------------------------------------------- from_elf and the task's break
(* An ELF image is the sequence of its Load program headers, each
   [vaddr, mem_size, perm, file]: perm holds the R, W, X bits of ph.flags()
   and file the file_size bytes of the segment,
   elf.input[ph.offset() .. ph.offset() + ph.file_size()). *)
RECURSIVE LoadSegments(_, _, _, _)
\* the loop over the program headers: [m, max_end_vpn]
LoadSegments(m, elf, i, max_end_vpn) ==
    IF i > Len(elf) \/ m.panicked THEN [m |-> m, max_end_vpn |-> max_end_vpn]
    ELSE LET ph == elf[i]
             map_area == MapAreaNew(ph.vaddr, ph.vaddr + ph.mem_size, "Framed",
                                    BitOr(U, ph.perm))
         IN LoadSegments(PushData(m, map_area, ph.file), elf, i + 1, map_area.end)

\* MemorySet::from_elf: [m, user_sp]; the user stack above a guard page,
\* the empty heap area at its top and the trap context
FromElfStack(m, user_stack_bottom, user_stack_top) ==
    [m |-> Push(Push(Push(m, MapAreaNew(user_stack_bottom, user_stack_top,
                                        "Framed", BitOr(BitOr(R, W), U))),
                     MapAreaNew(user_stack_top, user_stack_top, "Framed",
                                BitOr(BitOr(R, W), U))),
                MapAreaNew(TRAP_CONTEXT_BASE, TRAMPOLINE, "Framed", BitOr(R, W))),
     user_sp |-> user_stack_top]
\* ld: the memory set and max_end_vpn after the program headers
FromElfLoaded(ld) ==
    FromElfStack(ld.m, ld.max_end_vpn * PAGE_SIZE + PAGE_SIZE,
                 ld.max_end_vpn * PAGE_SIZE + PAGE_SIZE + USER_STACK_SIZE)
FromElf(m, elf) == FromElfLoaded(LoadSegments(MapTrampoline(NewBare(m)), elf, 1, 0))

\* if result { self.program_brk = new_brk; Some(old_break) } else { None }
BrkResult(r, old_break, new_brk) ==
    IF r.result
    THEN [m |-> r.m, brk |-> new_brk, some |-> TRUE, old |-> old_break]
    ELSE [m |-> r.m, brk |-> old_break, some |-> FALSE, old |-> 0]

\* a change_program_brk without the test against heap_bottom
ChangeProgramBrkNoFloor(m, hb, brk, size) ==
    BrkResult(IF size < 0 THEN ShrinkTo(m, hb, brk + size)
              ELSE AppendTo(m, hb, brk + size),
              brk, brk + size)

\* TaskControlBlock::change_program_brk: [m, brk, some, old]
ChangeProgramBrk(m, hb, brk, size) ==
    IF brk + size < hb
    THEN [m |-> m, brk |-> brk, some |-> FALSE, old |-> 0]
    ELSE BrkResult(IF size < 0 THEN ShrinkTo(m, hb, brk + size)
                   ELSE AppendTo(m, hb, brk + size),
                   brk, brk + size)

\* ------------------------------------------------- user-pointer translation
(* The satp token, scaled to 32-bit integers: the mode nibble in the bits
   from SatpModeShift up, zero in the bits SatpPpnBits .. SatpModeShift-1
   and the root page number in the SatpPpnBits bits below (60 and 44 in
   the source). *)
SatpPpnBits == 20
SatpModeShift == 27
RECURSIVE Pow2(_)
Pow2(n) == IF n = 0 THEN 1 ELSE 2 * Pow2(n - 1)
\* a token with the mode one bit too low
TokenModeBelow(rt) == 8 * Pow2(SatpModeShift - 1) + rt
\* PageTable::token: 8usize << 60 | self.root_ppn.0
Token(rt) == 8 * Pow2(SatpModeShift) + rt
\* PageTable::from_token: the root of the walker
FromToken(satp) == satp % Pow2(SatpPpnBits)
\* PageTable::from_token: the walker [root_ppn, frames]
Walker(satp) == [root_ppn |-> FromToken(satp), frames |-> << >>]

\* translated_va_to_pa: [some, pa]
\* if let Some(pte) = ... { Some((pte.ppn() << 12 | page_offset).into()) }
PaOf(t, virt_addr) ==
    IF t.some
    THEN [some |-> TRUE, pa |-> PtePpn(t.pte) * PAGE_SIZE + PageOffset(virt_addr)]
    ELSE [some |-> FALSE, pa |-> 0]
TranslatedVaToPa(mm, token, virt_addr) ==
    PaOf(Translate(mm, FromToken(token), Floor(virt_addr)), virt_addr)

\* translated_byte_buffer: [some, v], v the list of slices, each [ppn, lo, hi)
\* for &mut ppn.get_bytes_array()[lo..hi]; some is FALSE when
\* translate(vpn).unwrap() found None
Min(a, b) == IF a < b THEN a ELSE b
\* a slice that always ends at end_va.page_offset()
SliceToOffset(t, start, end_va) ==
    [ppn |-> PtePpn(t.pte), lo |-> PageOffset(start), hi |-> PageOffset(end_va)]
\* if end_va.page_offset() == 0 { [start_va.page_offset()..] }
\* else { [start_va.page_offset()..end_va.page_offset()] }
Slice(t, start, end_va) ==
    [ppn |-> PtePpn(t.pte), lo |-> PageOffset(start),
     hi |-> IF PageOffset(end_va) = 0 THEN PAGE_SIZE ELSE PageOffset(end_va)]
RECURSIVE ByteBufferFrom(_, _, _, _, _)
\* one turn of the loop; t: translate(vpn), end_va: the end of the slice
ByteBufferTurn(mm, rt, start, end, v, t, end_va) ==
    IF ~t.some THEN [some |-> FALSE, v |-> v]
    ELSE ByteBufferFrom(mm, rt, end_va, end, Append(v, Slice(t, start, end_va)))
ByteBufferFrom(mm, rt, start, end, v) ==
    IF ~(start < end) THEN [some |-> TRUE, v |-> v]
    ELSE ByteBufferTurn(mm, rt, start, end, v, Translate(mm, rt, Floor(start)),
                        Min((Floor(start) + 1) * PAGE_SIZE, end))
TranslatedByteBuffer(mm, token, ptr, len) ==
    ByteBufferFrom(mm, FromToken(token), ptr, ptr + len, << >>)

\* ------------------------------------------------------------- syscalls
\* a validation that lets a port without R, W and X through
SysMmapArgsOkAnyPort(start, len, port) ==
    start % PAGE_SIZE = 0 /\ port \div 8 = 0

\* sys_mmap: start % PAGE_SIZE == 0 && port & !0x7 == 0 && port & 0x7 != 0
SysMmapArgsOk(start, len, port) ==
    start % PAGE_SIZE = 0 /\ port \div 8 = 0 /\ port % 8 # 0

\* sys_munmap: start % PAGE_SIZE == 0 && len % PAGE_SIZE == 0
SysMunmapArgsOk(start, len) ==
    start % PAGE_SIZE = 0 /\ len % PAGE_SIZE = 0

\* task::create_memory_area: fails if a page of the range is mapped, else
\* inserts a Framed area with permissions (port << 1) | U.  [m, ret]
IsMapped(t) == t.some /\ PteIsValid(t.pte)
CreateMemoryArea(m, start, len, port) ==
    IF \E v \in Floor(start) .. Ceil(start + len) - 1 :
           IsMapped(MemorySetTranslate(m, v))
    THEN [m |-> m, ret |-> -1]
    ELSE [m |-> InsertFramedArea(m, start, start + len, BitOr(port * 2, U)),
          ret |-> 0]

\* task::delete_memory_area: removes the Framed area whose range is exactly
\* the given one, fails if there is none.  [m, ret]
DeleteMemoryArea(m, start, len) ==
    IF Position(m.areas, MapAreaNew(start, start + len, "Framed", 0)) = 0
    THEN [m |-> m, ret |-> -1]
    ELSE [m |-> DeleteFramedArea(m, start, start + len), ret |-> 0]

\* a sys_mmap that inserts the area without asking whether the range is free
SysMmapUnchecked(m, start, len, port) ==
    IF SysMmapArgsOk(start, len, port)
    THEN [m |-> InsertFramedArea(m, start, start + len, BitOr(port * 2, U)),
          ret |-> 0]
    ELSE [m |-> m, ret |-> -1]

\* sys_mmap: [m, ret]
SysMmap(m, start, len, port) ==
    IF SysMmapArgsOk(start, len, port)
    THEN CreateMemoryArea(m, start, len, port)
    ELSE [m |-> m, ret |-> -1]

\* sys_munmap: [m, ret]
SysMunmap(m, start, len) ==
    IF SysMunmapArgsOk(start, len)
    THEN DeleteMemoryArea(m, start, len)
    ELSE [m |-> m, ret |-> -1]

\* sys_sbrk: [m, brk, ret]
\* if let Some(old_brk) = ... { old_brk as isize } else { -1 }
SbrkResult(r) == [m |-> r.m, brk |-> r.brk, ret |-> IF r.some THEN r.old ELSE -1]
SysSbrk(m, hb, brk, size) == SbrkResult(ChangeProgramBrk(m, hb, brk, size))

(* sys_get_time and sys_task_info: the result is stored at the physical
   address the pointer translates to, one cell for each field (the kernel
   addresses physical memory through its identity mapping).  [m, ret, pa] *)
\* TimeVal { sec: us / 1_000_000, usec: us % 1_000_000 }
TimeValOf(us) == << us \div 1000000, us % 1000000 >>
\* the values of get_time_us()
Times == {1000002}
\* the values of get_current_task_info(): status, syscall_times, time
TaskInfos == {<< 2, 1, 1 >>}
\* *ts.get_mut() = val: the cells of val at pa, pa + 1, ...
RECURSIVE StoreFrom(_, _, _, _)
StoreFrom(mm, pa, val, i) ==
    IF i > Len(val) THEN mm
    ELSE StoreFrom([mm EXCEPT ![(pa + i - 1) \div PAGE_SIZE][(pa + i - 1) % PAGE_SIZE] = val[i]],
                   pa, val, i + 1)
\* a store past the end of physical memory is an access fault
StoreAt(m, pa, val) ==
    IF pa + Len(val) > MEMORY_END THEN Panic(m)
    ELSE [m EXCEPT !.mem = StoreFrom(m.mem, pa, val, 1)]
\* if let Some(ts) = translated_va_to_pa(..) { *ts.get_mut() = val; 0 } else { -1 }
WriteAt(m, t, val) ==
    IF t.some THEN [m |-> StoreAt(m, t.pa, val), ret |-> 0, pa |-> t.pa]
    ELSE [m |-> m, ret |-> -1, pa |-> -1]
SysWriteResult(m, token, ptr, val) ==
    WriteAt(m, TranslatedVaToPa(m.mem, token, ptr), val)
SysGetTime(m, token, ts, us) == SysWriteResult(m, token, ts, TimeValOf(us))
SysTaskInfo(m, token, ti, info) == SysWriteResult(m, token, ti, info)

\* ------------------------------------------------------------------ state
VARIABLES
    mem,          \* physical memory: page -> the entries of the node stored in it
    root,         \* page_table.root_ppn
    frames,       \* page_table.frames
    areas,        \* memory_set.areas
    current,      \* frame allocator: next page never handed out
    recycled,     \* frame allocator: recycled pages
    panicked,     \* a fatal condition was hit
    alive,        \* the life of the memory set: "none", "live" (kernel: the
                  \* kernel space, "kernel") or "dropped"; "table": a page
                  \* table on its own
    base,         \* frames in use when the memory set was constructed
    heap_bottom,  \* TaskControlBlock.heap_bottom
    program_brk,  \* TaskControlBlock.program_brk
    trap_cx_ppn,  \* TaskControlBlock.trap_cx_ppn
    calls,        \* number of calls made so far, the construction included
    last          \* the last call: its name, arguments and result

msvars == << mem, root, frames, areas >>
taskvars == << heap_bottom, program_brk, trap_cx_ppn >>
vars == << mem, root, frames, areas, current, recycled, panicked, alive, base,
           heap_bottom, program_brk, trap_cx_ppn, calls, last >>

Mach ==
    [mem |-> mem, root |-> root, frames |-> frames, areas |-> areas,
     current |-> current, recycled |-> recycled, panicked |-> panicked]

\* the machine after a fatal condition
Halted ==
    [mem |-> [p \in PPNs |-> ZeroPage], root |-> 0, frames |-> << >>,
     areas |-> << >>, current |-> FirstFrame, recycled |-> << >>,
     panicked |-> TRUE]

SetMach(m) ==
    LET h == IF m.panicked THEN Halted ELSE m
    IN /\ mem' = h.mem
       /\ root' = h.root
       /\ frames' = h.frames
       /\ areas' = h.areas
       /\ current' = h.current
       /\ recycled' = h.recycled
       /\ panicked' = h.panicked

FramesInUse == FramesInUseOf(Mach)

\* number of FrameTrackers held by the areas' data_frames
RECURSIVE DataFramesFrom(_, _)
DataFramesFrom(as, i) ==
    IF i > Len(as) THEN 0
    ELSE Cardinality(DOMAIN as[i].data_frames) + DataFramesFrom(as, i + 1)
DataFrames == DataFramesFrom(areas, 1)

\* the pages with a valid leaf entry in the page table
LeafValid(mm, rt, vpn) == IsMapped(Translate(mm, rt, vpn))
MappedVPNs == {v \in VPNs : LeafValid(mem, root, v)}

(* The record of the last call.  s, e: the page range of an insert, the page
   of a translate, the pointer of a syscall; ret: the result; found: whether
   the area the call looks up was in the list (translate: whether the result
   is Some); fresh: whether no page of the range had a valid leaf entry
   before the call; ok: whether a syscall's arguments passed its validation;
   fwd: whether a syscall's result is that of the memory-area operation it
   is built on; pa: the physical address a syscall wrote to (-1: none);
   pre, pren, pred: the frames in use, the length of
   page_table.frames and the number of data frames before the call; pair,
   pairn, paird: for a delete that follows an insert over the same range,
   those three counts before that insert (else -1); perm: the permission
   an insert was called with; elf: the image a task was built from; slices:
   the slices translated_byte_buffer returned, each [ppn, lo, hi) for the
   cells lo .. hi-1 of the page ppn; writes: the physical addresses a
   syscall stored its result at, in the order of the cells of the result;
   want: for each of these cells the physical address the page table maps
   its virtual address to (-1: none); premap: the pages with a valid leaf
   entry before an sbrk. *)
NoCall ==
    [op |-> "none", s |-> 0, e |-> 0, ret |-> 0, pa |-> -1, perm |-> 0,
     elf |-> << >>, slices |-> << >>, writes |-> << >>, want |-> << >>,
     premap |-> {},
     found |-> FALSE, fresh |-> FALSE, ok |-> FALSE, fwd |-> FALSE,
     pre |-> 0, pren |-> 0, pred |-> 0,
     pair |-> -1, pairn |-> -1, paird |-> -1]

\* one more call, of at most MaxCalls
Called ==
    /\ calls < MaxCalls
    /\ calls' = calls + 1

\* the result of a call: the machine and the record of the call; a call that
\* hit a fatal condition has no result, its record keeps what was known
\* before it ran
Commit(m, l) ==
    /\ calls < MaxCalls
    /\ calls' = IF m.panicked THEN 0 ELSE calls + 1
    /\ SetMach(m)
    /\ last' = IF m.panicked
               THEN [NoCall EXCEPT !.op = l.op, !.found = l.found,
                                   !.fresh = l.fresh, !.ok = l.ok, !.fwd = l.fwd,
                                   !.pair = l.pair]
               ELSE l

Counts(l) ==
    [l EXCEPT !.pre = FramesInUse, !.pren = Len(frames), !.pred = DataFrames]

(* The arguments the operations are called with: the non-empty page ranges
   inside the low pages 0 .. MaxLen, each once with
   page-aligned addresses and once with addresses inside its first and last
   page. *)
LowRanges == {r \in (0 .. MaxLen) \X (0 .. MaxLen) : r[1] < r[2]}
VaRanges(rs) ==
    {<< r[1] * PAGE_SIZE, r[2] * PAGE_SIZE >> : r \in rs}
    \cup {<< r[1] * PAGE_SIZE + 1, r[2] * PAGE_SIZE - 1 >> : r \in rs}
ArgRanges == VaRanges(LowRanges)
\* an area start and the end it is resized to
ResizeArgs ==
    {<< r[1] * PAGE_SIZE, r[2] * PAGE_SIZE >> : r \in (0 .. MaxLen - 1) \X (0 .. MaxLen)}
    \cup {<< r[1] * PAGE_SIZE + 1, r[2] * PAGE_SIZE - 1 >> :
             r \in (0 .. MaxLen - 1) \X (1 .. MaxLen)}
Perms == {BitOr(BitOr(R, W), U), BitOr(R, X)}

Init ==
    /\ mem = [p \in PPNs |-> ZeroPage]
    /\ root = 0
    /\ frames = << >>
    /\ areas = << >>
    /\ current = FirstFrame + OtherFrames
    /\ recycled = << >>
    /\ panicked = FALSE
    /\ alive = "none"
    /\ base = 0
    /\ heap_bottom = 0
    /\ program_brk = 0
    /\ trap_cx_ppn = 0
    /\ calls = 0
    /\ last = NoCall

\* MemorySet::new_bare() followed by map_trampoline(), as new_kernel and
\* from_elf start
Construct ==
    /\ alive = "none"
    /\ Commit(MapTrampoline(NewBare(Mach)), Counts([NoCall EXCEPT !.op = "new"]))
    /\ alive' = "live"
    /\ base' = FramesInUse
    /\ UNCHANGED taskvars

\* MemorySet::new_kernel()
CallNewKernel ==
    /\ alive = "none"
    /\ Commit(NewKernel(Mach), Counts([NoCall EXCEPT !.op = "new_kernel"]))
    /\ alive' = "kernel"
    /\ base' = FramesInUse
    /\ UNCHANGED taskvars

Live == alive \in {"live", "kernel"} /\ ~panicked

\* a Load program header with the flags R and X
Seg(vaddr, mem_size, file) ==
    [vaddr |-> vaddr, mem_size |-> mem_size, perm |-> BitOr(R, X), file |-> file]
\* the ELF image the tasks of the syscalls are built from: one page, no file
\* bytes
Elfs == { << Seg(0, PAGE_SIZE, << >>) >> }
\* areas of a fresh task: the Load segments, the stack, the heap, the trap context
TaskAreas == Len(CHOOSE e \in Elfs : \A f \in Elfs : Len(f) <= Len(e)) + 3

\* the areas the memory set was built with: those of new_kernel, of
\* from_elf, or none
BuiltAreas ==
    IF alive = "kernel" THEN 5 ELSE IF heap_bottom > 0 THEN TaskAreas ELSE 0

CallInsert(start_va, end_va, perm) ==
    /\ Live
    /\ Len(areas) < BuiltAreas + MaxAreas
    /\ Commit(InsertFramedArea(Mach, start_va, end_va, perm),
              Counts([NoCall EXCEPT !.op = "insert", !.s = Floor(start_va),
                         !.e = Ceil(end_va), !.perm = perm,
                         !.fresh = \A v \in Floor(start_va) .. Ceil(end_va) - 1 :
                                       v \notin MappedVPNs]))
    /\ UNCHANGED << alive, base, taskvars >>

CallDelete(start_va, end_va) ==
    /\ Live
    /\ LET t == MapAreaNew(start_va, end_va, "Framed", 0)
           paired == /\ last.op = "insert" /\ last.fresh
                     /\ last.s = t.start /\ last.e = t.end
       IN Commit(DeleteFramedArea(Mach, start_va, end_va),
                 Counts([NoCall EXCEPT !.op = "delete",
                            !.found = Position(areas, t) # 0,
                            !.pair = IF paired THEN last.pre ELSE -1,
                            !.pairn = IF paired THEN last.pren ELSE -1,
                            !.paird = IF paired THEN last.pred ELSE -1]))
    /\ UNCHANGED << alive, base, taskvars >>

\* r: the machine and the result of shrink_to or append_to
CommitResize(op, r) ==
    Commit(r.m, Counts([NoCall EXCEPT !.op = op, !.found = r.result]))

CallShrinkTo(start_va, new_end_va) ==
    /\ Live
    /\ CommitResize("shrink", ShrinkTo(Mach, start_va, new_end_va))
    /\ UNCHANGED << alive, base, taskvars >>

CallAppendTo(start_va, new_end_va) ==
    /\ Live
    /\ CommitResize("append", AppendTo(Mach, start_va, new_end_va))
    /\ UNCHANGED << alive, base, taskvars >>

TranslateReturned(t, vpn) ==
    /\ Called
    /\ last' = Counts([NoCall EXCEPT !.op = "translate", !.s = vpn,
                       !.found = t.some, !.ret = t.pte])
\* MemorySet::translate(vpn): s the page, found whether the result is Some,
\* ret the bits of the entry returned
CallTranslate(vpn) ==
    /\ Live
    /\ TranslateReturned(MemorySetTranslate(Mach, vpn), vpn)
    /\ UNCHANGED << mem, root, frames, areas, current, recycled, panicked,
                    alive, base, taskvars >>

\* the memory set goes out of scope
CallDrop ==
    /\ Live
    /\ Commit(DropMemorySet(Mach), Counts([NoCall EXCEPT !.op = "drop"]))
    /\ alive' = "dropped"
    /\ UNCHANGED << base, taskvars >>

DoInsert == \E r \in ArgRanges, perm \in Perms : CallInsert(r[1], r[2], perm)
DoDelete == \E r \in ArgRanges : CallDelete(r[1], r[2])
DoShrink == \E r \in ResizeArgs : CallShrinkTo(r[1], r[2])
DoAppend == \E r \in ResizeArgs : CallAppendTo(r[1], r[2])
DoTranslate == \E vpn \in VPNs : CallTranslate(vpn)
\* ranges of the trampoline page, which ends with the address space, and the
\* range of the trap-context page below it
TopRanges ==
    {<< TRAMPOLINE, TRAMPOLINE + PAGE_SIZE - 1 >>,
     << TRAMPOLINE + 1, TRAMPOLINE + PAGE_SIZE - 1 >>,
     << TRAP_CONTEXT_BASE, TRAMPOLINE >>}
DoDeleteTop == \E r \in TopRanges : CallDelete(r[1], r[2])

\* ------------------------------------------------------------- the task

\* TaskControlBlock::new (the kernel stack it maps lives in KERNEL_SPACE,
\* which is not part of this state)
\* r: what from_elf returned; t: translate(TRAP_CONTEXT_BASE).unwrap()
\* ret: the user_sp from_elf returned
TaskBuilt(r, t, elf) ==
    LET m == IF r.m.panicked \/ ~t.some THEN Panic(r.m) ELSE r.m
    IN /\ Commit(m, Counts([NoCall EXCEPT !.op = "task", !.elf = elf,
                                           !.ret = r.user_sp]))
       /\ trap_cx_ppn' = IF m.panicked THEN 0 ELSE PtePpn(t.pte)
       /\ heap_bottom' = IF m.panicked THEN 0 ELSE r.user_sp
       /\ program_brk' = IF m.panicked THEN 0 ELSE r.user_sp
TaskLoaded(r, elf) ==
    TaskBuilt(r, MemorySetTranslate(r.m, Floor(TRAP_CONTEXT_BASE)), elf)
TaskFrom(elf) ==
    /\ alive = "none"
    /\ TaskLoaded(FromElf(Mach, elf), elf)
    /\ alive' = "live"
    /\ base' = FramesInUse
TaskNew == \E elf \in Elfs : TaskFrom(elf)

(* The ELF images from_elf is tried on: one page with a file shorter than
   the segment, two pages with a file that ends in the second, two segments
   in ascending and in descending order of their addresses (side by side,
   and a page apart), a segment that starts inside a page, and a segment
   without file bytes. *)
ElfImages ==
    { << Seg(0, PAGE_SIZE, << 7 >>) >>,
      << Seg(0, 2 * PAGE_SIZE, << 7, 8, 9, 7 >>) >>,
      << Seg(0, PAGE_SIZE, << 7 >>), Seg(PAGE_SIZE, PAGE_SIZE, << 8, 9 >>) >>,
      << Seg(PAGE_SIZE, PAGE_SIZE, << 8, 9 >>), Seg(0, PAGE_SIZE, << 7 >>) >>,
      << Seg(2 * PAGE_SIZE, PAGE_SIZE, << 8 >>), Seg(0, PAGE_SIZE, << 7 >>) >>,
      << Seg(1, PAGE_SIZE - 1, << 7 >>) >>,
      << Seg(0, PAGE_SIZE, << >>) >> }
TaskLoad == \E elf \in ElfImages : TaskFrom(elf)

\* the arguments the syscalls are called with: the page addresses from the
\* heap bottom on and one address inside a page; the lengths of whole pages
\* and one that is not; port bits without R, W and X, with R and W, and with
\* a bit above them; break increments
SysStarts ==
    {heap_bottom + p * PAGE_SIZE : p \in 0 .. MaxLen - 1} \cup {heap_bottom + 1}
SysLens == {p * PAGE_SIZE : p \in 0 .. MaxLen} \cup {1}
SysPorts == {0, 3, 11}
SysSizes == {0 - PAGE_SIZE, -1, 0, 1, PAGE_SIZE}

\* ok: none of the three conditions sys_mmap rejects its arguments for holds
\* r: what sys_mmap returned
MmapReturned(r, start, len, port) ==
    /\ Len(r.m.areas) <= TaskAreas + MaxMmaps
    /\ Commit(r.m, Counts([NoCall EXCEPT !.op = "mmap", !.ret = r.ret,
                           !.ok = ~(\/ start % PAGE_SIZE # 0
                                    \/ port \div 8 # 0
                                    \/ port % 8 = 0),
                           !.fwd = r = CreateMemoryArea(Mach, start, len, port),
                           !.fresh = \A v \in Floor(start) .. Ceil(start + len) - 1 :
                                         v \notin MappedVPNs]))
CallMmap(start, len, port) ==
    /\ Live
    /\ MmapReturned(SysMmap(Mach, start, len, port), start, len, port)
    /\ UNCHANGED << alive, base, taskvars >>

\* ok: start and len are both multiples of PAGE_SIZE
MunmapReturned(r, start, len) ==
    Commit(r.m, Counts([NoCall EXCEPT !.op = "munmap", !.ret = r.ret,
                           !.ok = ~(start % PAGE_SIZE # 0 \/ len % PAGE_SIZE # 0),
                           !.fwd = r = DeleteMemoryArea(Mach, start, len),
                           !.found = Position(areas,
                               MapAreaNew(start, start + len, "Framed", 0)) # 0]))
CallMunmap(start, len) ==
    /\ Live
    /\ MunmapReturned(SysMunmap(Mach, start, len), start, len)
    /\ UNCHANGED << alive, base, taskvars >>

\* ok: the new break is not below heap_bottom; found: the heap area is in
\* the list; s: the break before the call; e: the break asked for
SbrkReturned(r, size) ==
    /\ Commit(r.m, Counts([NoCall EXCEPT !.op = "sbrk", !.ret = r.ret,
                           !.ok = program_brk + size >= heap_bottom,
                           !.found = FindByStart(areas, Floor(heap_bottom)) # 0,
                           !.premap = MappedVPNs,
                           !.s = program_brk, !.e = program_brk + size]))
    /\ program_brk' = IF r.m.panicked THEN 0 ELSE r.brk
    /\ heap_bottom' = IF r.m.panicked THEN 0 ELSE heap_bottom
    /\ trap_cx_ppn' = IF r.m.panicked THEN 0 ELSE trap_cx_ppn
CallSbrk(size) ==
    /\ Live
    /\ SbrkReturned(SysSbrk(Mach, heap_bottom, program_brk, size), size)
    /\ UNCHANGED << alive, base >>

\* the physical address the page table maps a virtual address to, -1 if
\* its page has no valid leaf entry
MappedPa(va) ==
    IF Floor(va) \in MappedVPNs
    THEN PtePpn(Translate(mem, root, Floor(va)).pte) * PAGE_SIZE + PageOffset(va)
    ELSE -1
\* fresh: the page of the pointer has no valid leaf entry; e: the number of
\* cells of the result; perm: the flags of the leaf entry of that page
\* r: what the syscall returned and where it wrote
PtrReturned(op, r, ptr, n) ==
    /\ Commit(r.m, Counts([NoCall EXCEPT !.op = op, !.s = ptr, !.e = n,
                           !.ret = r.ret, !.pa = r.pa,
                           !.writes = IF r.ret = 0 THEN [i \in 1 .. n |-> r.pa + i - 1]
                                      ELSE << >>,
                           !.want = [i \in 1 .. n |-> MappedPa(ptr + i - 1)],
                           !.perm = IF Floor(ptr) \in MappedVPNs
                                    THEN PteFlags(Translate(mem, root, Floor(ptr)).pte)
                                    ELSE 0,
                           !.fresh = Floor(ptr) \notin MappedVPNs]))
    /\ heap_bottom' = IF r.m.panicked THEN 0 ELSE heap_bottom
    /\ program_brk' = IF r.m.panicked THEN 0 ELSE program_brk
    /\ trap_cx_ppn' = IF r.m.panicked THEN 0 ELSE trap_cx_ppn
CallGetTime(ts, us) ==
    /\ Live
    /\ PtrReturned("get_time", SysGetTime(Mach, Token(root), ts, us), ts,
                   Len(TimeValOf(us)))
    /\ UNCHANGED << alive, base >>

CallTaskInfo(ti, info) ==
    /\ Live
    /\ PtrReturned("task_info", SysTaskInfo(Mach, Token(root), ti, info), ti, Len(info))
    /\ UNCHANGED << alive, base >>

\* translated_byte_buffer(token, ptr, len): s the pointer, e the length, ok
\* whether every page of [ptr, ptr+len) has a valid leaf entry
\* r: what translated_byte_buffer returned
BufferReturned(r, ptr, len) ==
    Commit(IF r.some THEN Mach ELSE Panic(Mach),
           Counts([NoCall EXCEPT !.op = "buffer", !.s = ptr, !.e = len,
                      !.slices = r.v,
                      !.ok = \A v \in VPNs :
                                 (ptr < (v + 1) * PAGE_SIZE /\ v * PAGE_SIZE < ptr + len)
                                     => v \in MappedVPNs]))
CallByteBuffer(ptr, len) ==
    /\ Live
    /\ BufferReturned(TranslatedByteBuffer(mem, Token(root), ptr, len), ptr, len)
    /\ UNCHANGED << alive, base, taskvars >>

\* buffers in the low pages: every start and every length up to MaxLen pages
BufPtrs == 0 .. MaxLen * PAGE_SIZE - 1
BufLens == 0 .. MaxLen * PAGE_SIZE
DoByteBuffer == \E ptr \in BufPtrs, len \in BufLens : CallByteBuffer(ptr, len)

DoMmap == \E start \in SysStarts, len \in SysLens, port \in SysPorts :
              CallMmap(start, len, port)
DoMunmap == \E start \in SysStarts, len \in SysLens : CallMunmap(start, len)
DoSbrk == \E size \in SysSizes : CallSbrk(size)
\* pointers: the guard page below the user stack, the first and the last
\* address of the stack page, the heap bottom right above it, and the trap
\* context
PtrArgs ==
    {heap_bottom - PAGE_SIZE - USER_STACK_SIZE, heap_bottom - USER_STACK_SIZE,
     heap_bottom - 1, heap_bottom, TRAP_CONTEXT_BASE}
DoGetTime == \E ts \in PtrArgs, us \in Times : CallGetTime(ts, us)
DoTaskInfo == \E ti \in PtrArgs, info \in TaskInfos : CallTaskInfo(ti, info)

\* a task that maps, unmaps and moves its break
NextTask == TaskNew \/ DoMmap \/ DoMunmap \/ DoSbrk
SpecTask == Init /\ [][NextTask]_vars

\* a task that maps, unmaps and hands pointers to the kernel
NextPtr == TaskNew \/ DoMmap \/ DoMunmap \/ DoGetTime \/ DoTaskInfo
SpecPtr == Init /\ [][NextPtr]_vars

\* tasks built from ELF images, and buffers of theirs the kernel reads
NextElf == TaskLoad \/ DoByteBuffer
SpecElf == Init /\ [][NextElf]_vars

\* the kernel space or the space of a task, and calls on its memory set
NextKernel ==
    CallNewKernel \/ TaskNew \/ DoInsert \/ DoDelete \/ DoDeleteTop \/ DoShrink
    \/ DoAppend
SpecKernel == Init /\ [][NextKernel]_vars

\* ranges that start at the heap bottom, the empty one included
HeapRanges == {<< heap_bottom, heap_bottom + p * PAGE_SIZE >> : p \in 0 .. MaxLen}
DoInsertHeap == \E r \in HeapRanges, perm \in Perms : CallInsert(r[1], r[2], perm)
DoDeleteHeap == \E r \in HeapRanges : CallDelete(r[1], r[2])

\* a task whose memory set gets areas inserted and deleted at the heap bottom
\* and that moves its break
NextHeap == TaskNew \/ DoInsertHeap \/ DoDeleteHeap \/ DoSbrk
SpecHeap == Init /\ [][NextHeap]_vars

\* PageTable::new()
CallPageTableNew ==
    /\ alive = "none"
    /\ Commit(PageTableNew(Mach), Counts([NoCall EXCEPT !.op = "table"]))
    /\ alive' = "table"
    /\ base' = FramesInUse
    /\ UNCHANGED taskvars
TableLive == alive = "table" /\ ~panicked
\* PageTable::map(vpn, ppn, flags); s: the page, ret: ppn, perm: flags,
\* fresh: the leaf entry of the page is not valid
CallMap(vpn, ppn, flags) ==
    /\ TableLive
    /\ Commit(PageTableMap(Mach, vpn, ppn, flags),
              Counts([NoCall EXCEPT !.op = "map", !.s = vpn, !.ret = ppn,
                         !.perm = flags, !.fresh = vpn \notin MappedVPNs]))
    /\ UNCHANGED << alive, base, taskvars >>
\* PageTable::unmap(vpn)
CallUnmap(vpn) ==
    /\ TableLive
    /\ Commit(PageTableUnmap(Mach, vpn),
              Counts([NoCall EXCEPT !.op = "unmap", !.s = vpn,
                         !.fresh = vpn \notin MappedVPNs]))
    /\ UNCHANGED << alive, base, taskvars >>
\* pages that share both nodes, the level-1 node only, and the root only
MapVPNs == {0, 1, IdxEntries, IdxEntries * IdxEntries}
\* physical pages to map to: the trampoline's and the first of the allocator
MapPPNs == {TrampolinePPN, FirstFrame}
DoMap == \E vpn \in MapVPNs, ppn \in MapPPNs, flags \in Perms : CallMap(vpn, ppn, flags)
DoUnmap == \E vpn \in MapVPNs : CallUnmap(vpn)

\* a page table on its own, mapped and unmapped page by page
NextTable == CallPageTableNew \/ DoMap \/ DoUnmap
SpecTable == Init /\ [][NextTable]_vars

\* a task that only moves its break
NextSbrk == TaskNew \/ DoSbrk
SpecSbrk == Init /\ [][NextSbrk]_vars

Next ==
    Construct \/ DoInsert \/ DoDelete \/ DoShrink \/ DoAppend \/ DoTranslate
    \/ CallDrop

Spec == Init /\ [][Next]_vars

\* ----------------------------------------------------------- properties
machine == << mem, root, frames, areas, current, recycled >>

\* C1: in every state of a memory set reached by insert_framed_area,
\* delete_framed_area, shrink_to and append_to calls from new_bare and
\* map_trampoline, the pages with a valid leaf entry are exactly the union
\* of the areas' page ranges plus the trampoline page.
C1_LeavesAreAreaUnion ==
    Live => MappedVPNs =
                UNION {areas[i].start .. areas[i].end - 1 : i \in 1 .. Len(areas)}
                \cup {Floor(TRAMPOLINE)}
\* a page inside the range of a listed area has no valid leaf entry
C1_AreaPageUnmapped ==
    Live /\ \E i \in 1 .. Len(areas) :
                \E v \in areas[i].start .. areas[i].end - 1 : v \notin MappedVPNs

\* C2 (as stated): an insert_framed_area over an unmapped range followed by
\* a delete_framed_area over the same range leaves the number of frames in
\* use at its value before the insert.
C2_PairRestoresFramesInUse ==
    (last.op = "delete" /\ last.pair # -1) => (~panicked /\ FramesInUse = last.pair)
\* C2 (amended): the pair returns every data frame; the frames in use grow
\* by exactly the page-table node frames the insert added to
\* page_table.frames, which the delete does not return.
C2_PairRestoresDataFrames ==
    (last.op = "delete" /\ last.pair # -1) =>
        /\ ~panicked
        /\ last.found
        /\ DataFrames = last.paird
        /\ FramesInUse = last.pair + (Len(frames) - last.pairn)
\* such a pair ran and its insert had to create page-table nodes
C2_PairGrewTable ==
    /\ last.op = "delete" /\ last.pair # -1 /\ ~panicked
    /\ Len(frames) > last.pairn
    /\ FramesInUse > last.pair

\* C3: translate(vpn) returns the leaf entry when it is valid and None in
\* every other case, also when the nodes on the path exist and the leaf
\* entry is not valid.
C3_TranslateNoneUnlessValid ==
    last.op = "translate" =>
        IF LeafValid(mem, root, last.s)
        THEN last.found /\ PteIsValid(last.ret)
        ELSE ~last.found
\* translate returned Some of an entry that is not valid
C3_SomeOfInvalidEntry ==
    last.op = "translate" /\ last.found /\ ~PteIsValid(last.ret)

\* C4: translated_va_to_pa is None for an address whose page has no valid
\* leaf entry, so sys_get_time and sys_task_info return -1 and write
\* nothing; with a valid leaf the address is leaf.ppn * PAGE_SIZE + offset.
C4_UnmappedPointerFails ==
    last.op \in {"get_time", "task_info"} =>
        IF last.fresh
        THEN last.ret = -1 /\ last.pa = -1
        ELSE /\ last.ret = 0
             /\ last.pa = PtePpn(Translate(mem, root, Floor(last.s)).pte) * PAGE_SIZE
                              + PageOffset(last.s)
\* a syscall returned 0 and wrote into physical page 0 through a pointer
\* whose page has no valid leaf entry
C4_WroteThroughInvalidEntry ==
    /\ last.op \in {"get_time", "task_info"}
    /\ last.fresh /\ last.ret = 0
    /\ last.pa = PageOffset(last.s)

\* C5: delete_framed_area over a range that no listed Framed area has
\* exactly is a no-op: page table, area list and frames are unchanged.
C5_DeleteWithoutAreaIsNoOp ==
    [][(last'.op = "delete" /\ ~last'.found) =>
           (~panicked' /\ UNCHANGED machine)]_vars
\* such a delete returned, and the areas now hold more data frames than
\* there are mapped pages besides the trampoline
C5_DeleteClearedEntries ==
    /\ last.op = "delete" /\ ~last.found /\ Live
    /\ DataFrames > Cardinality(MappedVPNs \ {Floor(TRAMPOLINE)})

\* C6: in every state reached by calls that returned without a panic, any
\* two distinct areas of the list have disjoint page ranges.
C6_AreasDisjoint ==
    Live => \A i, j \in 1 .. Len(areas) :
                i # j => (areas[i].start .. areas[i].end - 1)
                             \cap (areas[j].start .. areas[j].end - 1) = {}
\* two listed areas share a page
C6_OverlapReached ==
    Live /\ \E i, j \in 1 .. Len(areas) :
                /\ i < j
                /\ \E v \in VPNs : /\ areas[i].start <= v /\ v < areas[i].end
                                   /\ areas[j].start <= v /\ v < areas[j].end

C8_ValidationHasNoSideEffect ==
    [][(last'.op \in {"mmap", "munmap"}) =>
           IF last'.ok THEN last'.fwd
           ELSE ~panicked' /\ last'.ret = -1 /\ UNCHANGED machine]_vars
\* an mmap was rejected for its arguments while a munmap of an area the
\* task holds would have been possible
C8_RejectedMmap ==
    last.op = "mmap" /\ ~last.ok /\ last.ret = -1 /\ Len(areas) > TaskAreas

C10_DropReturnsAllFrames ==
    alive = "dropped" => (~panicked /\ FramesInUse = base)
\* a memory set that held data frames besides its page table was dropped
C10_DroppedWithDataFrames ==
    alive = "dropped" /\ ~panicked /\ last.pred > 0 /\ last.pren > 3

\* C11: from_elf puts the user stack above every Load segment, whatever the
\* order of the program headers: user_stack_bottom is the highest end page
\* of a segment, times PAGE_SIZE, plus PAGE_SIZE; the page below the stack is
\* unmapped, the stack shares no page with a segment, and user_sp is
\* user_stack_bottom + USER_STACK_SIZE.
C11_StackAboveEverySegment ==
    (last.op = "task" /\ ~panicked) =>
        LET ends == {Ceil(last.elf[i].vaddr + last.elf[i].mem_size) :
                        i \in 1 .. Len(last.elf)}
            max_end == CHOOSE e \in ends : \A f \in ends : f <= e
            bottom == max_end * PAGE_SIZE + PAGE_SIZE
            stack == areas[Len(last.elf) + 1]
        IN /\ last.ret = bottom + USER_STACK_SIZE
           /\ stack.start = Floor(bottom)
           /\ stack.end = Ceil(bottom + USER_STACK_SIZE)
           /\ stack.start - 1 \notin MappedVPNs
           /\ \A i \in 1 .. Len(last.elf) : areas[i].end <= stack.start
\* a task was built whose stack starts at the end page of one of its
\* segments: the page under the stack is a page of that segment
C11_StackOnSegmentEnd ==
    /\ last.op = "task" /\ ~panicked
    /\ \E i \in 1 .. Len(last.elf) :
           /\ areas[i].end = areas[Len(last.elf) + 1].start
           /\ areas[i].end - 1 \in MappedVPNs

\* C12: after from_elf, for every Load program header the cells at the
\* user addresses [vaddr, vaddr+file_size) hold the file content and the
\* cells at [vaddr+file_size, vaddr+mem_size) are zero.
C12_SegmentBytesLoaded ==
    (last.op = "task" /\ ~panicked) =>
        \A i \in 1 .. Len(last.elf) :
            \A k \in 0 .. last.elf[i].mem_size - 1 :
                LET va == last.elf[i].vaddr + k
                    t == Translate(mem, root, Floor(va))
                IN /\ IsMapped(t)
                   /\ mem[PtePpn(t.pte)][PageOffset(va)] =
                          IF k < Len(last.elf[i].file) THEN last.elf[i].file[k + 1]
                          ELSE 0
\* a segment that starts inside a page was loaded, and its first file byte
\* lies at the start of that page
C12_FileAtPageStart ==
    /\ last.op = "task" /\ ~panicked
    /\ \E i \in 1 .. Len(last.elf) :
           /\ PageOffset(last.elf[i].vaddr) # 0
           /\ Len(last.elf[i].file) > 0
           /\ LET t == Translate(mem, root, Floor(last.elf[i].vaddr))
              IN /\ IsMapped(t)
                 /\ mem[PtePpn(t.pte)][0] = last.elf[i].file[1]
                 /\ mem[PtePpn(t.pte)][PageOffset(last.elf[i].vaddr)] = 0

\* C16: translated_byte_buffer(token, ptr, len) over mapped pages returns
\* one slice per page touched, in ascending order, each in the frame mapped
\* for its page, the first from the page offset of ptr and the others from
\* 0, each to the end of its page or to ptr+len; the lengths sum to len,
\* and len = 0 gives the empty list.
C16_SlicesCoverBuffer ==
    (last.op = "buffer" /\ last.ok) =>
        /\ ~panicked
        /\ LET ptr == last.s
               len == last.e
               first == Floor(ptr)
               n == IF len = 0 THEN 0 ELSE Floor(ptr + len - 1) - first + 1
           IN /\ Len(last.slices) = n
              /\ \A i \in 1 .. n :
                     /\ last.slices[i].ppn = PtePpn(Translate(mem, root, first + i - 1).pte)
                     /\ last.slices[i].lo = IF i = 1 THEN PageOffset(ptr) ELSE 0
                     /\ last.slices[i].hi =
                            IF i = n THEN ptr + len - (first + n - 1) * PAGE_SIZE
                            ELSE PAGE_SIZE
              /\ Cardinality({p \in (1 .. Len(last.slices)) \X (0 .. PAGE_SIZE - 1) :
                                  /\ last.slices[p[1]].lo <= p[2]
                                  /\ p[2] < last.slices[p[1]].hi}) = len
\* a buffer that starts inside a page, covers the next and ends inside a
\* third was translated
C16_ThreePageBuffer ==
    /\ last.op = "buffer" /\ last.ok /\ ~panicked
    /\ Len(last.slices) = 3
    /\ PageOffset(last.s) # 0
    /\ PageOffset(last.s + last.e) # 0

\* C13: right after insert_framed_area(start_va, end_va, perm) returns,
\* every page of [floor(start_va), ceil(end_va)) translates to a valid leaf
\* entry whose flags are exactly perm with V (its U bit that of perm) and
\* whose page is the frame the new area holds for it; two pages of the area
\* have different frames.
C13_InsertedPagesTranslate ==
    (last.op = "insert" /\ ~panicked) =>
        LET a == areas[Len(areas)]
        IN /\ a.start = last.s /\ a.end = last.e
           /\ DOMAIN a.data_frames = last.s .. last.e - 1
           /\ \A v \in last.s .. last.e - 1 :
                  LET t == Translate(mem, root, v)
                  IN /\ t.some /\ PteIsValid(t.pte)
                     /\ PteFlags(t.pte) = BitOr(last.perm, V)
                     /\ HasBit(PteFlags(t.pte), U) = HasBit(last.perm, U)
                     /\ PtePpn(t.pte) = a.data_frames[v]
           /\ \A v, w \in last.s .. last.e - 1 :
                  v # w => a.data_frames[v] # a.data_frames[w]
\* an insert of two pages with U returned, next to an area without U
C13_InsertedTwoPages ==
    /\ last.op = "insert" /\ ~panicked
    /\ last.e - last.s = 2
    /\ HasBit(last.perm, U)
    /\ Len(areas) = 2 /\ ~HasBit(areas[1].map_perm, U)

\* C14: after new_kernel() every page of the five Identical areas is a
\* valid leaf with ppn = vpn and the flags of its section without U: .text
\* R|X, .rodata R, .data, .bss and the physical memory R|W.
C14_KernelIdentityMapped ==
    (last.op = "new_kernel" /\ ~panicked) =>
        LET sections ==
                << [s |-> stext, e |-> etext, perm |-> BitOr(R, X)],
                   [s |-> srodata, e |-> erodata, perm |-> R],
                   [s |-> sdata, e |-> edata, perm |-> BitOr(R, W)],
                   [s |-> sbss_with_stack, e |-> ebss, perm |-> BitOr(R, W)],
                   [s |-> ekernel, e |-> MEMORY_END, perm |-> BitOr(R, W)] >>
        IN /\ Len(areas) = 5
           /\ \A i \in 1 .. 5 :
                  /\ areas[i].map_type = "Identical"
                  /\ areas[i].start = Floor(sections[i].s)
                  /\ areas[i].end = Ceil(sections[i].e)
                  /\ \A v \in areas[i].start .. areas[i].end - 1 :
                         LET t == Translate(mem, root, v)
                         IN /\ IsMapped(t)
                            /\ PtePpn(t.pte) = v
                            /\ PteFlags(t.pte) = BitOr(sections[i].perm, V)
                            /\ ~HasBit(PteFlags(t.pte), U)
           /\ ~PteWritable(Translate(mem, root, Floor(stext)).pte)
           /\ ~PteWritable(Translate(mem, root, Floor(srodata)).pte)
           /\ ~HasBit(PteFlags(Translate(mem, root, Floor(sdata)).pte), X)
\* new_kernel returned with all five areas and the whole physical memory mapped
C14_KernelBuilt ==
    /\ last.op = "new_kernel" /\ ~panicked
    /\ Len(areas) = 5
    /\ FrameEnd - 1 \in MappedVPNs /\ Floor(stext) \in MappedVPNs

\* C15 (as stated): in the kernel space and in every user space, after any
\* calls, no frame of page_table.frames is the page of a valid leaf entry
\* of that table.
C15_NoNodeFrameIsLeaf ==
    Live => \A v \in MappedVPNs :
                \A i \in 1 .. Len(frames) :
                    PtePpn(Translate(mem, root, v).pte) # frames[i]
\* C15 (amended): no frame of page_table.frames is the page of a valid leaf
\* entry that a Framed area or map_trampoline installed, so in a user space
\* of from_elf none is the page of any valid leaf; in the kernel space every
\* frame of page_table.frames is the page of the leaf that the Identical
\* area of the physical memory installed for it.
C15_NoNodeFrameIsFramedLeaf ==
    Live => /\ \A v \in MappedVPNs :
                  \A i \in 1 .. Len(frames) :
                      PtePpn(Translate(mem, root, v).pte) = frames[i]
                          => /\ alive = "kernel"
                             /\ v = frames[i]
                             /\ \E j \in 1 .. Len(areas) :
                                    /\ areas[j].map_type = "Identical"
                                    /\ areas[j].start <= v /\ v < areas[j].end
            /\ (alive = "kernel" /\ last.op = "new_kernel") =>
                   \A i \in 1 .. Len(frames) :
                       /\ frames[i] \in MappedVPNs
                       /\ PtePpn(Translate(mem, root, frames[i]).pte) = frames[i]
\* the kernel space maps the root of its own page table
C15_KernelMapsOwnRoot ==
    /\ alive = "kernel" /\ ~panicked
    /\ root \in MappedVPNs
    /\ PtePpn(Translate(mem, root, root).pte) = root

\* C19: in every memory set built by new_kernel or from_elf, after any
\* insert_framed_area, delete_framed_area, shrink_to and append_to calls
\* that returned, the page of TRAMPOLINE has a valid leaf entry with the
\* flags V|R|X and the page of the trampoline code.
C19_TrampolineStaysMapped ==
    Live => LET t == Translate(mem, root, Floor(TRAMPOLINE))
            IN /\ IsMapped(t)
               /\ PteFlags(t.pte) = BitOr(BitOr(V, R), X)
               /\ PtePpn(t.pte) = TrampolinePPN
\* a delete_framed_area over the trampoline page returned and the page is
\* no longer mapped
C19_TrampolineUnmapped ==
    /\ last.op = "delete" /\ ~last.found /\ Live
    /\ Floor(TRAMPOLINE) \notin MappedVPNs

\* C17: token() holds 8 in its mode bits, zero in the bits between and the
\* root page number in its low bits; from_token(token()) is a walker with
\* the same root and no frames, which translates every page as the table
\* does and returns no frame when it is dropped.
C17_TokenRoundTrip ==
    Live =>
        /\ Token(root) \div Pow2(SatpModeShift) = 8
        /\ (Token(root) % Pow2(SatpModeShift)) \div Pow2(SatpPpnBits) = 0
        /\ Token(root) % Pow2(SatpPpnBits) = root
        /\ Walker(Token(root)).root_ppn = root
        /\ Walker(Token(root)).frames = << >>
        /\ \A vpn \in VPNs :
               Translate(mem, Walker(Token(root)).root_ppn, vpn) = Translate(mem, root, vpn)
        /\ DropSeq(Mach, Walker(Token(root)).frames, 1) = Mach
\* the walker of a table with a Framed area translates a page of the area
C17_WalkerTranslates ==
    /\ Live /\ Len(areas) > 0
    /\ \E vpn \in MappedVPNs \ {Floor(TRAMPOLINE)} :
           IsMapped(Translate(mem, Walker(Token(root)).root_ppn, vpn))

\* C18: when the TimeVal or TaskInfo a syscall stores through a mapped
\* pointer straddles a page boundary, every cell is stored in the frame the
\* page table maps for the virtual page of that cell.
C18_StraddlingStoreFollowsMapping ==
    (/\ last.op \in {"get_time", "task_info"}
     /\ last.ret = 0 /\ ~last.fresh
     /\ Floor(last.s) # Floor(last.s + last.e - 1))
        => last.writes = last.want
\* both pages of a straddling buffer are mapped, and the cells of the second
\* page were stored in the frame that follows the frame of the first
C18_StoredInNextPhysicalFrame ==
    /\ last.op \in {"get_time", "task_info"}
    /\ last.ret = 0
    /\ Floor(last.s) # Floor(last.s + last.e - 1)
    /\ \A i \in 1 .. last.e : last.want[i] # -1
    /\ \E i \in 1 .. last.e :
           /\ last.writes[i] # last.want[i]
           /\ last.writes[i] \div PAGE_SIZE = (last.writes[1] \div PAGE_SIZE) + 1

\* C20: in a task built by from_elf, whatever areas were inserted and
\* deleted and however the break was moved, an area that starts at the page
\* of heap_bottom is in the list, so that an sbrk whose new break is not
\* below heap_bottom finds its area.
C20_HeapAreaStaysFound ==
    /\ (Live /\ heap_bottom > 0) => FindByStart(areas, Floor(heap_bottom)) # 0
    /\ (last.op = "sbrk" /\ last.ok /\ ~panicked) => last.found
\* a delete found the heap area and removed it: no area starts at the page
\* of heap_bottom any more
C20_HeapAreaDeleted ==
    /\ Live /\ heap_bottom > 0
    /\ last.op = "delete" /\ last.found
    /\ FindByStart(areas, Floor(heap_bottom)) = 0

\* the heap area of a task on which only sbrk was called: the area from_elf
\* pushed before the trap-context area
HeapArea == areas[TaskAreas - 1]
\* the pages between the heap bottom and the trap context
HeapVPNs == Floor(heap_bottom) .. Floor(TRAP_CONTEXT_BASE) - 1
\* heap_bottom <= program_brk, the heap area is [floor(heap_bottom),
\* ceil(program_brk)), exactly its pages are mapped, V|R|W|U, each to its
\* own frame held by the area
HeapMatchesBreak ==
    /\ heap_bottom <= program_brk
    /\ HeapArea.map_type = "Framed"
    /\ HeapArea.start = Floor(heap_bottom)
    /\ HeapArea.end = Ceil(program_brk)
    /\ DOMAIN HeapArea.data_frames = HeapArea.start .. HeapArea.end - 1
    /\ MappedVPNs \cap HeapVPNs = HeapArea.start .. HeapArea.end - 1
    /\ \A v \in HeapArea.start .. HeapArea.end - 1 :
           /\ PtePpn(Translate(mem, root, v).pte) = HeapArea.data_frames[v]
           /\ PteFlags(Translate(mem, root, v).pte) = BitOr(BitOr(V, R), BitOr(W, U))
           /\ FirstFrame <= HeapArea.data_frames[v]
           /\ HeapArea.data_frames[v] < current
           /\ \A i \in 1 .. Len(recycled) : recycled[i] # HeapArea.data_frames[v]
           /\ \A i \in 1 .. Len(frames) : frames[i] # HeapArea.data_frames[v]
           /\ \A w \in MappedVPNs \ {v} :
                  PtePpn(Translate(mem, root, w).pte) # HeapArea.data_frames[v]
\* C21: in a task on which only sbrk is called, after every call
\* heap_bottom <= program_brk, the heap area is [floor(heap_bottom),
\* ceil(program_brk)) and exactly its pages are mapped V|R|W|U to frames of
\* their own held by the area; a growth by d followed by a shrink by d
\* restores the mapped pages and the number of data frames.
C21_HeapFollowsBreak ==
    [][/\ (alive' = "live" /\ ~panicked') => HeapMatchesBreak'
       /\ (/\ last.op = "sbrk" /\ last.ret # -1 /\ last.e > last.s
           /\ last'.op = "sbrk" /\ last'.ret # -1 /\ ~panicked'
           /\ last'.s = last.e /\ last'.e = last.s)
              => (MappedVPNs' = last.premap /\ DataFrames' = last.pred)]_vars
\* a break inside a page was grown by a page and shrunk back: the heap holds
\* one page again, having held two
C21_GrownAndShrunkBack ==
    /\ Live /\ last.op = "sbrk" /\ last.ret # -1
    /\ last.e = last.s - PAGE_SIZE
    /\ PageOffset(program_brk) # 0
    /\ last.pred = DataFrames + 1
    /\ Cardinality(DOMAIN HeapArea.data_frames) = 1

\* C22: in a task, whatever areas were inserted, deleted, shrunk and
\* appended to, the page at TRAP_CONTEXT_BASE has a valid leaf with flags
\* V|R|W whose frame is trap_cx_ppn, and an area of the task holds that
\* frame: it was not returned to the allocator.
C22_TrapContextStaysMapped ==
    (alive = "live" /\ ~panicked /\ heap_bottom > 0) =>
        /\ LeafValid(mem, root, Floor(TRAP_CONTEXT_BASE))
        /\ PteFlags(Translate(mem, root, Floor(TRAP_CONTEXT_BASE)).pte) = BitOr(V, BitOr(R, W))
        /\ PtePpn(Translate(mem, root, Floor(TRAP_CONTEXT_BASE)).pte) = trap_cx_ppn
        /\ \E i \in 1 .. Len(areas) :
               /\ Floor(TRAP_CONTEXT_BASE) \in DOMAIN areas[i].data_frames
               /\ areas[i].data_frames[Floor(TRAP_CONTEXT_BASE)] = trap_cx_ppn
        /\ \A i \in 1 .. Len(recycled) : recycled[i] # trap_cx_ppn
\* a delete found the trap-context area of a task: its page is unmapped and
\* the frame cached in trap_cx_ppn is back in the allocator
C22_TrapContextFreed ==
    /\ alive = "live" /\ ~panicked /\ heap_bottom > 0
    /\ last.op = "delete" /\ last.found
    /\ ~LeafValid(mem, root, Floor(TRAP_CONTEXT_BASE))
    /\ \E i \in 1 .. Len(recycled) : recycled[i] = trap_cx_ppn

\* the frames the allocator can still hand out
FreeFrames == (FrameEnd - current) + Len(recycled)
\* the most frames a call can ask for: a data frame for each page of its
\* range (sbrk moves the break by a page at most) and two nodes for each
\* level-1 node its range touches (two at most)
FramesNeeded(op) == IF op = "sbrk" THEN 3 ELSE MaxLen + 4
\* C23: while frames remain available, no sys_mmap, sys_munmap or sys_sbrk
\* reaches a fatal condition: a call made with enough free frames for all
\* it can allocate returns.
C23_SyscallsNeverFatal ==
    [][(~panicked /\ FreeFrames >= FramesNeeded(last'.op)) => ~panicked']_vars
\* an sbrk was called with a page mapped right above the heap area and
\* three frames free
C23_SbrkIntoMappedPage ==
    /\ Live /\ heap_bottom > 0 /\ FreeFrames >= 3
    /\ \E i \in 1 .. Len(areas) :
           /\ areas[i].start = Floor(heap_bottom)
           /\ areas[i].end = Ceil(program_brk)
           /\ areas[i].end \in MappedVPNs
    /\ last.op = "mmap" /\ last.ret = 0

\* C24: in a user memory set every valid leaf entry other than the
\* trampoline's points to a frame that an area of the memory set holds in
\* its data_frames for that page, and that the allocator has not got back.
C24_LeavesPointToHeldFrames ==
    (alive = "live" /\ ~panicked) =>
        \A v \in MappedVPNs \ {Floor(TRAMPOLINE)} :
            /\ \E i \in 1 .. Len(areas) :
                   /\ v \in DOMAIN areas[i].data_frames
                   /\ areas[i].data_frames[v] = PtePpn(Translate(mem, root, v).pte)
            /\ PtePpn(Translate(mem, root, v).pte) < current
            /\ \A i \in 1 .. Len(recycled) :
                   recycled[i] # PtePpn(Translate(mem, root, v).pte)
\* a delete or a shrink returned frames to the allocator and left other
\* pages mapped
C24_ReleasedBesideMapped ==
    /\ alive = "live" /\ ~panicked
    /\ last.op \in {"delete", "shrink"} /\ last.found
    /\ FramesInUse < last.pre
    /\ MappedVPNs \ {Floor(TRAMPOLINE)} # {}

\* C25: sys_get_time and sys_task_info store their result only through a
\* pointer whose page has a leaf entry with U and W; through a pointer into
\* a mapped page without them they return -1 and store nothing.
C25_StoresOnlyToUserWritable ==
    (last.op \in {"get_time", "task_info"} /\ ~last.fresh) =>
        IF HasBit(last.perm, U) /\ HasBit(last.perm, W)
        THEN last.ret = 0
        ELSE last.ret = -1 /\ last.writes = << >>
\* a syscall returned 0 and stored its result in the trap-context frame,
\* whose page is mapped without U
C25_StoredInTrapContext ==
    /\ Live /\ last.op \in {"get_time", "task_info"}
    /\ last.s = TRAP_CONTEXT_BASE /\ last.ret = 0
    /\ ~HasBit(last.perm, U)
    /\ last.writes[1] = trap_cx_ppn * PAGE_SIZE
    /\ mem[trap_cx_ppn] # ZeroPage

\* C26: every Framed area of the list has a frame for exactly the pages of
\* its range, every Identical area has none.
C26_DataFramesMatchRange ==
    Live =>
        \A i \in 1 .. Len(areas) :
            IF areas[i].map_type = "Framed"
            THEN DOMAIN areas[i].data_frames = areas[i].start .. areas[i].end - 1
            ELSE DOMAIN areas[i].data_frames = {}
\* an Identical area was shrunk to nothing in a memory set that also has a
\* Framed area with a page
C26_ResizedAmongBothTypes ==
    /\ Live /\ last.op = "shrink" /\ last.found
    /\ \E i \in 1 .. Len(areas) :
           areas[i].map_type = "Identical" /\ areas[i].end = areas[i].start
    /\ \E i \in 1 .. Len(areas) :
           /\ areas[i].map_type = "Framed"
           /\ areas[i].end = areas[i].start + 1

\* C27: unmap of a page with a valid leaf entry sets that entry to zero and
\* changes no other entry of any node, nor the frame list, nor the
\* allocator; unmap of a page without one is fatal and changes nothing; the
\* frame list never shrinks over map and unmap.
C27_UnmapClearsOneLeaf ==
    [][/\ (last'.op = "unmap" /\ ~last'.fresh) =>
              /\ ~panicked'
              /\ frames' = frames /\ root' = root
              /\ current' = current /\ recycled' = recycled
              /\ Translate(mem', root, last'.s) = [some |-> TRUE, pte |-> 0]
              /\ \A p \in PPNs, i \in 0 .. IdxEntries - 1 :
                     (mem'[p][i] # mem[p][i]) =>
                         /\ p = FindPte(mem, root, last'.s).ppn
                         /\ i = FindPte(mem, root, last'.s).idx
       /\ (last'.op = "unmap" /\ last'.fresh) => panicked'
       /\ TableLive =>
              \A vpn \in VPNs \ MappedVPNs : PageTableUnmap(Mach, vpn) = Panic(Mach)
       /\ (TableLive /\ ~panicked' /\ alive' = "table") =>
              /\ Len(frames') >= Len(frames)
              /\ SubSeq(frames', 1, Len(frames)) = frames]_vars
\* a page was unmapped while the other page of its level-0 node stays mapped
C27_UnmappedBesideNeighbour ==
    /\ TableLive /\ last.op = "unmap" /\ ~last.fresh
    /\ last.s \in {0, 1}
    /\ MappedVPNs \cap {0, 1} # {}
    /\ Len(frames) = last.pren

\* the number of non-leaf entries on the path of vpn that are not valid
InvalidLevels(mm, rt, vpn) ==
    IF ~PteIsValid(mm[rt][Indexes(vpn)[1]]) THEN 2
    ELSE IF ~PteIsValid(mm[PtePpn(mm[rt][Indexes(vpn)[1]])][Indexes(vpn)[2]]) THEN 1
    ELSE 0
\* the node of level-1 entries on the path of vpn
Level1Node(mm, rt, vpn) == PtePpn(mm[rt][Indexes(vpn)[1]])
\* k frames were allocated, appended to the frame list and written, V only,
\* into the non-leaf entries on the path of vpn that were not valid
NodesCreated(vpn, k) ==
    /\ Len(frames') = Len(frames) + k
    /\ SubSeq(frames', 1, Len(frames)) = frames
    /\ FramesInUse' = FramesInUse + k
    /\ \A j \in 1 .. k :
           /\ frames'[Len(frames) + j] >= FirstFrame
           /\ frames'[Len(frames) + j] >= current
                  \/ \E i \in 1 .. Len(recycled) : recycled[i] = frames'[Len(frames) + j]
    /\ k = 2 => mem'[root][Indexes(vpn)[1]] = PteNew(frames'[Len(frames) + 1], V)
    /\ k >= 1 => mem'[Level1Node(mem', root, vpn)][Indexes(vpn)[2]]
                     = PteNew(frames'[Len(frames) + k], V)
    /\ \A p \in PPNs, i \in 0 .. IdxEntries - 1 :
           (mem'[p][i] # mem[p][i]) =>
               \/ p = root /\ i = Indexes(vpn)[1] /\ k = 2
               \/ p = Level1Node(mem', root, vpn) /\ i = Indexes(vpn)[2] /\ k >= 1
               \/ p = FindPte(mem', root, vpn).ppn /\ i = Indexes(vpn)[3]
\* C28: map of a page whose leaf entry is not valid allocates one frame for
\* each non-leaf entry on its path that is not valid, writes the frame with
\* V only into that entry and appends it to the frame list; afterwards the
\* leaf entry of the page holds ppn and flags | V, and no other leaf
\* changed.
C28_MapCreatesMissingNodes ==
    [][(last'.op = "map" /\ last'.fresh /\ ~panicked') =>
           /\ root' = root
           /\ NodesCreated(last'.s, InvalidLevels(mem, root, last'.s))
           /\ Translate(mem', root, last'.s)
                  = [some |-> TRUE, pte |-> PteNew(last'.ret, BitOr(last'.perm, V))]
           /\ PtePpn(Translate(mem', root, last'.s).pte) = last'.ret
           /\ PteFlags(Translate(mem', root, last'.s).pte) = BitOr(last'.perm, V)
           /\ \A w \in VPNs \ {last'.s} :
                  /\ LeafValid(mem', root, w) = LeafValid(mem, root, w)
                  /\ LeafValid(mem, root, w) =>
                         Translate(mem', root, w) = Translate(mem, root, w)]_vars
\* a map found the level-2 entry of its page valid and the level-1 entry
\* not, and allocated one node
C28_MappedWithOneNewNode ==
    /\ TableLive /\ last.op = "map" /\ last.fresh
    /\ Len(frames) = last.pren + 1
    /\ last.pren >= 3
    /\ Cardinality(MappedVPNs) >= 2

====
